---- MODULE Spec2Model ----
(***************************************************************************)
(* Model of nntp_analyze.py: NNTPAnalyzer (connect, disconnect,            *)
(* get_active_groups, analyze_group_activity, analyze_server,              *)
(* print_top_groups, export_results) and main.                             *)
(*                                                                         *)
(* Text is a sequence of one-character strings.  Numbers with a fraction   *)
(* are kept exactly as scaled integers: posts_per_day in tenths,           *)
(* activity_score in hundredths.                                           *)
(***************************************************************************)
EXTENDS Integers, Sequences, FiniteSets, TLC

(***************************************************************************)
(* Bounds of the model.                                                    *)
(***************************************************************************)
\* longest catalog of the exhaustive (small) specification
MaxCat == 3
\* a long catalog has at most QuickLimit + LongExtra descriptors
LongExtra == 2
\* largest number of groups of a generated all-valid catalog
MaxGroups == 32

(***************************************************************************)
(* Text helpers: str.lower / re.IGNORECASE, re.search of a literal         *)
(* pattern, str.split(), int(), str(int), ",".join.                        *)
(***************************************************************************)
Digits == <<"0", "1", "2", "3", "4", "5", "6", "7", "8", "9">>

IsDigit(c) == \E d \in 1..10 : Digits[d] = c

DigitVal(c) == (CHOOSE d \in 1..10 : Digits[d] = c) - 1

\* case folding of re.IGNORECASE, for the letters the inputs use
Lower(c) ==
    CASE c = "A" -> "a"
      [] c = "C" -> "c"
      [] c = "G" -> "g"
      [] c = "I" -> "i"
      [] c = "Y" -> "y"
      [] OTHER -> c

\* pattern_re.search(text) for a pattern without metacharacters, compiled
\* with re.IGNORECASE: the pattern occurs somewhere in the text
Search(pat, text) ==
    \E k \in 0..(Len(text) - Len(pat)) :
        \A j \in 1..Len(pat) : Lower(text[k + j]) = Lower(pat[j])

\* str.split(): the maximal runs of non-blank characters
RECURSIVE SplitFrom(_, _, _, _)
SplitFrom(text, i, cur, acc) ==
    IF i > Len(text)
    THEN IF cur = <<>> THEN acc ELSE Append(acc, cur)
    ELSE IF text[i] = " "
         THEN SplitFrom(text, i + 1, <<>>,
                        IF cur = <<>> THEN acc ELSE Append(acc, cur))
         ELSE SplitFrom(text, i + 1, Append(cur, text[i]), acc)

Split(text) == SplitFrom(text, 1, <<>>, <<>>)

RECURSIVE DigitsValue(_, _)
DigitsValue(tok, n) ==
    IF n = 0 THEN 0 ELSE 10 * DigitsValue(tok, n - 1) + DigitVal(tok[n])

\* int(tok): an optional sign and decimal digits; anything else raises
\* ValueError (ok = FALSE)
ParseInt(tok) ==
    LET signed == Len(tok) > 0 /\ tok[1] \in {"-", "+"}
        body   == IF signed THEN Tail(tok) ELSE tok
    IN  IF Len(body) > 0 /\ \A j \in 1..Len(body) : IsDigit(body[j])
        THEN [ok |-> TRUE,
              val |-> IF signed /\ tok[1] = "-"
                      THEN 0 - DigitsValue(body, Len(body))
                      ELSE DigitsValue(body, Len(body))]
        ELSE [ok |-> FALSE, val |-> 0]

\* str(n) of a natural number
RECURSIVE IntToText(_)
IntToText(n) ==
    IF n < 10 THEN <<Digits[n + 1]>>
    ELSE Append(IntToText(n \div 10), Digits[(n % 10) + 1])

\* ",".join(names)
RECURSIVE Join(_)
Join(names) ==
    IF names = <<>> THEN <<>>
    ELSE IF Len(names) = 1 THEN names[1]
    ELSE names[1] \o <<",">> \o Join(Tail(names))

(***************************************************************************)
(* Group descriptors, as connection.list() hands them over: a structured   *)
(* record (nntplib GroupInfo: group, last, first, flag), a bytes line      *)
(* (decodable or not) or a str line.                                       *)
(***************************************************************************)
Rec(g, l, f, fl) ==
    [shape |-> "record", group |-> g, last |-> l, first |-> f, flag |-> fl]

Bytes(t) == [shape |-> "bytes", decodable |-> TRUE, text |-> t]

BadBytes == [shape |-> "bytes", decodable |-> FALSE, text |-> <<>>]

Str(t) == [shape |-> "str", text |-> t]

\* hasattr(group_data, 'group')
HasGroupAttr(g) == g.shape = "record"

\* str(g) of a structured record: the namedtuple's repr
StrOfRecord(g) ==
    <<"G","r","o","u","p","I","n","f","o","(","g","r","o","u","p","=","'">>
    \o g.group \o <<"'",","," ","l","a","s","t","=","'">> \o g.last
    \o <<"'",","," ","f","i","r","s","t","=","'">> \o g.first
    \o <<"'",","," ","f","l","a","g","=","'">> \o g.flag \o <<"'",")">>

\* g.decode() if isinstance(g, bytes) else str(g); ok = FALSE when decode
\* raises UnicodeDecodeError (a ValueError)
LineOf(g) ==
    CASE g.shape = "bytes" ->
             IF g.decodable THEN [ok |-> TRUE, text |-> g.text]
             ELSE [ok |-> FALSE, text |-> <<>>]
      [] g.shape = "str" -> [ok |-> TRUE, text |-> g.text]
      [] OTHER -> [ok |-> TRUE, text |-> StrOfRecord(g)]

(***************************************************************************)
(* Program constants.                                                      *)
(***************************************************************************)
\* limit = 1000 if quick_scan else None
QuickLimit == 1000
\* if len(group_names) > 25
BlockThreshold == 25
\* for i in range(0, len(group_names), 15)
BlockSize == 15

Min(a, b) == IF a <= b THEN a ELSE b

Max(a, b) == IF a >= b THEN a ELSE b

\* s[:n], Python's slice with n of either sign
SliceTo(s, n) ==
    IF n >= 0 THEN SubSeq(s, 1, Min(n, Len(s)))
    ELSE SubSeq(s, 1, Max(0, Len(s) + n))

(***************************************************************************)
(* get_active_groups(pattern, limit).  listing is what connection.list()   *)
(* did: ok = FALSE when it raised.  pattern = <<>> and limit = 0 are the   *)
(* falsy values (None).  Every exception inside is caught and yields [].   *)
(***************************************************************************)
\* the filter step; ok = FALSE when it raises (IndexError on groups_data[0],
\* AttributeError on g.group, UnicodeDecodeError on g.decode())
FilterByPattern(data, pattern) ==
    IF data = <<>> THEN [ok |-> FALSE, groups |-> <<>>]
    ELSE IF HasGroupAttr(data[1])
    THEN IF \A i \in 1..Len(data) : HasGroupAttr(data[i])
         THEN [ok |-> TRUE,
               groups |-> SelectSeq(data, LAMBDA g : Search(pattern, g.group))]
         ELSE [ok |-> FALSE, groups |-> <<>>]
    ELSE IF \A i \in 1..Len(data) : LineOf(data[i]).ok
         THEN [ok |-> TRUE,
               groups |-> SelectSeq(data,
                              LAMBDA g : Search(pattern, LineOf(g).text))]
         ELSE [ok |-> FALSE, groups |-> <<>>]

\* mutant of get_active_groups: the cap is applied before the filter
get_active_groups_cap_first(listing, pattern, limit) ==
    IF ~listing.ok THEN <<>>
    ELSE LET capped == IF limit # 0 /\ Len(listing.groups) > limit
                       THEN SubSeq(listing.groups, 1, limit)
                       ELSE listing.groups
             filtered == IF pattern # <<>>
                         THEN FilterByPattern(capped, pattern)
                         ELSE [ok |-> TRUE, groups |-> capped]
         IN  IF ~filtered.ok THEN <<>> ELSE filtered.groups

get_active_groups(listing, pattern, limit) ==
    IF ~listing.ok THEN <<>>
    ELSE LET filtered == IF pattern # <<>>
                         THEN FilterByPattern(listing.groups, pattern)
                         ELSE [ok |-> TRUE, groups |-> listing.groups]
         IN  IF ~filtered.ok THEN <<>>
             ELSE IF limit # 0 /\ Len(filtered.groups) > limit
                  THEN SubSeq(filtered.groups, 1, limit)
                  ELSE filtered.groups

(***************************************************************************)
(* analyze_group_activity(group_data): a GroupInfo, or None.               *)
(***************************************************************************)
None == [kind |-> "None"]

\* mutant of Metrics: a group whose high watermark is 0 is kept
MetricsKeepsHighZero(name, high, low, flag) ==
    LET total_articles == IF high >= low THEN Max(0, high - low + 1) ELSE 0
        days_estimate10 == Max(10, total_articles)
        posts_per_day10 == (100 * total_articles) \div days_estimate10
        activity_score100 == 70 * total_articles + 3 * posts_per_day10
    IN  IF total_articles <= 0 \/ high < 0 THEN None
        ELSE [kind |-> "GroupInfo", name |-> name, count |-> total_articles,
              low |-> low, high |-> high, flag |-> flag,
              activity_score |-> activity_score100,
              posts_per_day |-> posts_per_day10]

\* mutant of Metrics: days_estimate by integer division, total_articles // 10
MetricsFloorDays(name, high, low, flag) ==
    LET total_articles == IF high >= low THEN Max(0, high - low + 1) ELSE 0
        days_estimate10 == 10 * Max(1, total_articles \div 10)
        posts_per_day10 == (100 * total_articles) \div days_estimate10
        activity_score100 == 70 * total_articles + 3 * posts_per_day10
    IN  IF total_articles <= 0 \/ high <= 0 THEN None
        ELSE [kind |-> "GroupInfo", name |-> name, count |-> total_articles,
              low |-> low, high |-> high, flag |-> flag,
              activity_score |-> activity_score100,
              posts_per_day |-> posts_per_day10]

\* lines 147-170: the metrics of parsed fields
Metrics(name, high, low, flag) ==
    LET total_articles == IF high >= low THEN Max(0, high - low + 1) ELSE 0
        \* days_estimate = max(1, total_articles / 10), in tenths
        days_estimate10 == Max(10, total_articles)
        \* posts_per_day = total_articles / days_estimate, in tenths
        posts_per_day10 == (100 * total_articles) \div days_estimate10
        \* total_articles * 0.7 + posts_per_day * 0.3, in hundredths
        activity_score100 == 70 * total_articles + 3 * posts_per_day10
    IN  IF total_articles <= 0 \/ high <= 0 THEN None
        ELSE [kind |-> "GroupInfo", name |-> name, count |-> total_articles,
              low |-> low, high |-> high, flag |-> flag,
              activity_score |-> activity_score100,
              posts_per_day |-> posts_per_day10]

analyze_group_activity(g) ==
    IF HasGroupAttr(g)
    THEN LET high == ParseInt(g.last)
             low  == ParseInt(g.first)
         IN  IF high.ok /\ low.ok
             THEN Metrics(g.group, high.val, low.val, g.flag)
             ELSE None
    ELSE LET line == LineOf(g)
             parts == Split(line.text)
         IN  IF ~line.ok \/ Len(parts) < 4 THEN None
             ELSE LET high == ParseInt(parts[2])
                      low  == ParseInt(parts[3])
                  IN  IF high.ok /\ low.ok
                      THEN Metrics(parts[1], high.val, low.val, parts[4])
                      ELSE None

(***************************************************************************)
(* analyzed_groups.sort(key=activity_score, reverse=True): a stable sort,  *)
(* descending; equal keys keep their order.                                *)
(***************************************************************************)
RECURSIVE InsertDesc(_, _)
InsertDesc(sorted, x) ==
    IF sorted = <<>> THEN <<x>>
    ELSE IF Head(sorted).activity_score >= x.activity_score
         THEN <<Head(sorted)>> \o InsertDesc(Tail(sorted), x)
         ELSE <<x>> \o sorted

RECURSIVE SortPrefix(_, _)
SortPrefix(s, n) ==
    IF n = 0 THEN <<>> ELSE InsertDesc(SortPrefix(s, n - 1), s[n])

Reverse(s) == [i \in 1..Len(s) |-> s[Len(s) + 1 - i]]

RECURSIVE InsertAsc(_, _)
InsertAsc(sorted, x) ==
    IF sorted = <<>> THEN <<x>>
    ELSE IF Head(sorted).activity_score <= x.activity_score
         THEN <<Head(sorted)>> \o InsertAsc(Tail(sorted), x)
         ELSE <<x>> \o sorted

RECURSIVE SortAscPrefix(_, _)
SortAscPrefix(s, n) ==
    IF n = 0 THEN <<>> ELSE InsertAsc(SortAscPrefix(s, n - 1), s[n])

\* mutant of SortByScore: sort ascending, then reverse (ties are reversed)
SortAscendingThenReverse(s) == Reverse(SortAscPrefix(s, Len(s)))

SortByScore(s) == SortPrefix(s, Len(s))

(***************************************************************************)
(* The scan loop of analyze_server, lines 194-217.                         *)
(***************************************************************************)
\* group_info of every descriptor, in order
InfosOf(groups_data) ==
    [i \in 1..Len(groups_data) |-> analyze_group_activity(groups_data[i])]

\* if group_info and group_info.count > 0: analyzed_groups.append(group_info)
Appended(infos) == SelectSeq(infos, LAMBDA r : r # None /\ r.count > 0)

\* elif group_info is None: failed_count += 1
FailedCount(infos) == Cardinality({i \in 1..Len(infos) : infos[i] = None})

(***************************************************************************)
(* print_top_groups(groups, top_n): the table it prints.  header is the    *)
(* count of the "TOP n" title line, rows the detail rows, shown and total  *)
(* the counts of the closing line.                                         *)
(***************************************************************************)
\* nothing of the table is printed
NoReport ==
    [printed |-> FALSE, header |-> 0, rows |-> <<>>, shown |-> 0, total |-> 0]

print_top_groups(groups, top_n) ==
    LET actual_top == Min(top_n, Len(groups))
        groups_to_show == SliceTo(groups, top_n)
    IN  IF groups = <<>> THEN NoReport
        ELSE [printed |-> TRUE,
              header |-> actual_top,
              rows |-> [i \in 1..Len(groups_to_show) |->
                           [rank |-> i, group |-> groups_to_show[i]]],
              shown |-> Len(groups_to_show),
              total |-> Len(groups)]

(***************************************************************************)
(* export_results(groups, filename, top_n): what is written to the file.   *)
(***************************************************************************)
FileLine(label, number, text) ==
    [label |-> label, number |-> number, text |-> text]

\* mutant of NameSection: blocks as long as the threshold
NameSectionWideBlocks(group_names) ==
    IF Len(group_names) > BlockThreshold
    THEN <<FileLine("full", 0, Join(group_names))>> \o
         [b \in 1..((Len(group_names) + BlockThreshold - 1) \div BlockThreshold) |->
             FileLine("block", b,
                 Join(SubSeq(group_names, (b - 1) * BlockThreshold + 1,
                             Min(b * BlockThreshold, Len(group_names)))))]
    ELSE <<FileLine("list", 0, Join(group_names))>>

\* lines 276-287: i runs over range(0, len(group_names), 15); block b is
\* the one of i = (b - 1) * 15
NameSection(group_names) ==
    IF Len(group_names) > BlockThreshold
    THEN <<FileLine("full", 0, Join(group_names))>> \o
         [b \in 1..((Len(group_names) + BlockSize - 1) \div BlockSize) |->
             FileLine("block", b,
                 Join(SubSeq(group_names, (b - 1) * BlockSize + 1,
                             Min(b * BlockSize, Len(group_names)))))]
    ELSE <<FileLine("list", 0, Join(group_names))>>

export_results(groups, top_n) ==
    LET shown == SliceTo(groups, top_n)
        group_names == [i \in 1..Len(shown) |-> shown[i].name]
    IN  [written |-> TRUE,
         total |-> Len(groups),
         top |-> Min(top_n, Len(groups)),
         details |-> [i \in 1..Len(shown) |-> [rank |-> i, group |-> shown[i]]],
         names |-> NameSection(group_names)]

NoFile ==
    [written |-> FALSE, total |-> 0, top |-> 0, details |-> <<>>, names |-> <<>>]

(***************************************************************************)
(* Inputs.                                                                 *)
(***************************************************************************)
\* descriptors of the small catalogs
Pool ==
    { Rec(<<"a","b">>, <<"1","2">>, <<"1">>, <<"y">>),
      Rec(<<"A","c">>, <<"5">>, <<"1">>, <<"y">>),
      Rec(<<"c">>, <<"5">>, <<"1">>, <<"n">>),
      Rec(<<"a","d">>, <<"0">>, <<"1">>, <<"y">>),
      Rec(<<"a","e">>, <<"x">>, <<"1">>, <<"y">>),
      Rec(<<"a","f">>, <<"0">>, <<"0">>, <<"y">>),
      Bytes(<<"a","b"," ","1","2"," ","1"," ","y">>),
      Bytes(<<"c"," ","5"," ","1"," ","y">>),
      Str(<<"a","b"," ","5"," ","1">>),
      BadBytes }

SeqsUpTo(S, n) == UNION {[1..k -> S] : k \in 0..n}

SmallCatalogs == SeqsUpTo(Pool, MaxCat)

\* -f: no pattern, a pattern that matches names regardless of case, a
\* pattern that matches only bounds
Patterns == { <<>>, <<"A">>, <<"5">> }

\* -n
TopNs == { -1, 0, 2, 50 }

(***************************************************************************)
(* State.                                                                  *)
(***************************************************************************)
VARIABLES
    pc,              \* position in main / analyze_server
    catalog,         \* the groups the server lists
    connection,      \* self.connection: "None" or "NNTP"
    connect_result,  \* "pending", "refused", "login_failed", "ok"
    quit_calls,      \* calls of self.connection.quit()
    list_result,     \* "pending", "error", "ok"
    pattern,         \* args.filter
    quick_scan,      \* args.quick
    groups_data,     \* what get_active_groups returned
    infos,           \* group_info of each descriptor of groups_data
    failed_count,
    groups,          \* what analyze_server returned
    top_n,           \* args.top
    report,          \* what print_top_groups printed
    file,            \* what export_results wrote
    exit_code        \* -1 while running

vars == <<pc, catalog, connection, connect_result, quit_calls, list_result,
          pattern, quick_scan, groups_data, infos, failed_count, groups,
          top_n, report, file, exit_code>>

InitWith(cat) ==
    /\ pc = "connect"
    /\ catalog = cat
    /\ connection = "None"
    /\ connect_result = "pending"
    /\ quit_calls = 0
    /\ list_result = "pending"
    /\ pattern = <<>>
    /\ quick_scan = FALSE
    /\ groups_data = <<>>
    /\ infos = <<>>
    /\ failed_count = 0
    /\ groups = <<>>
    /\ top_n = 0
    /\ report = NoReport
    /\ file = NoFile
    /\ exit_code = -1

Init == \E cat \in SmallCatalogs : InitWith(cat)

(***************************************************************************)
(* analyze_server.                                                         *)
(***************************************************************************)
\* connect(): nntplib.NNTP(...) raises; self.connection stays None and
\* analyze_server returns [] before its try block
ConnectRefused ==
    /\ pc = "connect"
    /\ connect_result' = "refused"
    /\ groups' = <<>>
    /\ pc' = "returned"
    /\ UNCHANGED <<catalog, connection, quit_calls, list_result, pattern,
                   quick_scan, groups_data, infos, failed_count, top_n,
                   report, file, exit_code>>

\* connect(): the session is opened, login() raises; connect returns False
\* and analyze_server returns [] before its try block
ConnectLoginFailed ==
    /\ pc = "connect"
    /\ connection' = "NNTP"
    /\ connect_result' = "login_failed"
    /\ groups' = <<>>
    /\ pc' = "returned"
    /\ UNCHANGED <<catalog, quit_calls, list_result, pattern, quick_scan,
                   groups_data, infos, failed_count, top_n, report, file,
                   exit_code>>

ConnectOk ==
    /\ pc = "connect"
    /\ connection' = "NNTP"
    /\ connect_result' = "ok"
    /\ pc' = "list"
    /\ UNCHANGED <<catalog, quit_calls, list_result, pattern, quick_scan,
                   groups_data, infos, failed_count, groups, top_n, report,
                   file, exit_code>>

\* lines 186-191: get_active_groups(pattern, limit), and the return of []
\* when it gave nothing
GetActiveGroups ==
    /\ pc = "list"
    /\ \E p \in Patterns, q \in BOOLEAN, ok \in BOOLEAN :
        LET limit == IF q THEN QuickLimit ELSE 0
            data  == get_active_groups([ok |-> ok, groups |-> catalog], p, limit)
        IN  /\ pattern' = p
            /\ quick_scan' = q
            /\ list_result' = IF ok THEN "ok" ELSE "error"
            /\ groups_data' = data
            /\ pc' = IF data = <<>> THEN "finally" ELSE "scan"
    /\ groups' = <<>>
    /\ UNCHANGED <<catalog, connection, connect_result, quit_calls, infos,
                   failed_count, top_n, report, file, exit_code>>

\* lines 193-217: the scan loop and the sort
Scan ==
    /\ pc = "scan"
    /\ infos' = InfosOf(groups_data)
    /\ failed_count' = FailedCount(infos')
    /\ groups' = SortByScore(Appended(infos'))
    /\ pc' = "finally"
    /\ UNCHANGED <<catalog, connection, connect_result, quit_calls,
                   list_result, pattern, quick_scan, groups_data, top_n,
                   report, file, exit_code>>

\* finally: self.disconnect(); quit() is called when self.connection is set,
\* and what it raises is swallowed
Disconnect ==
    /\ pc = "finally"
    /\ quit_calls' = IF connection # "None" THEN quit_calls + 1 ELSE quit_calls
    /\ pc' = "returned"
    /\ UNCHANGED <<catalog, connection, connect_result, list_result, pattern,
                   quick_scan, groups_data, infos, failed_count, groups,
                   top_n, report, file, exit_code>>

(***************************************************************************)
(* main, after analyze_server returned.                                    *)
(***************************************************************************)
\* mutant of ExitStatus: the else branch does not call sys.exit(1)
ExitStatusAlwaysZero(result) == 0

\* sys.exit(1) of the else branch, and the status of a normal end
ExitStatus(result) == IF result # <<>> THEN 0 ELSE 1

\* if groups: print_top_groups(groups, args.top)
PrintTopGroups ==
    /\ pc = "returned"
    /\ groups # <<>>
    /\ \E n \in TopNs :
        /\ top_n' = n
        /\ report' = print_top_groups(groups, n)
    /\ pc' = "printed"
    /\ UNCHANGED <<catalog, connection, connect_result, quit_calls,
                   list_result, pattern, quick_scan, groups_data, infos,
                   failed_count, groups, file, exit_code>>

\* if args.output: export_results(groups, args.output, args.top)
ExportResults ==
    /\ pc = "printed"
    /\ file' = export_results(groups, top_n)
    /\ pc' = "exported"
    /\ UNCHANGED <<catalog, connection, connect_result, quit_calls,
                   list_result, pattern, quick_scan, groups_data, infos,
                   failed_count, groups, top_n, report, exit_code>>

\* args.output is not given, or open() raises: nothing is written
NoExport ==
    /\ pc = "printed"
    /\ pc' = "exported"
    /\ UNCHANGED <<catalog, connection, connect_result, quit_calls,
                   list_result, pattern, quick_scan, groups_data, infos,
                   failed_count, groups, top_n, report, file, exit_code>>

\* the end of main: normally, or by sys.exit(1) when groups is empty
Exit ==
    /\ \/ pc = "exported"
       \/ pc = "returned" /\ groups = <<>>
    /\ exit_code' = ExitStatus(groups)
    /\ pc' = "exited"
    /\ UNCHANGED <<catalog, connection, connect_result, quit_calls,
                   list_result, pattern, quick_scan, groups_data, infos,
                   failed_count, groups, top_n, report, file>>

Next ==
    \/ ConnectRefused
    \/ ConnectLoginFailed
    \/ ConnectOk
    \/ GetActiveGroups
    \/ Scan
    \/ Disconnect
    \/ PrintTopGroups
    \/ ExportResults
    \/ NoExport
    \/ Exit

Spec == Init /\ [][Next]_vars

(***************************************************************************)
(* Long catalogs, for the quick scan: more descriptors than QuickLimit.    *)
(* Fillers are empty groups (rejected by the scan); marks are valid groups *)
(* named after their position.                                             *)
(***************************************************************************)
\* an empty group whose name matches the pattern "A"
FillMatch == Rec(<<"a","d">>, <<"0">>, <<"1">>, <<"y">>)

\* an empty group whose name matches no pattern
FillOther == Rec(<<"c">>, <<"0">>, <<"1">>, <<"n">>)

\* a valid group at position i, of i articles
Mark(i) == Rec(<<"a">> \o IntToText(i), IntToText(i), <<"1">>, <<"y">>)

LongCatalog(len, others, marks) ==
    [i \in 1..len |->
        IF i \in marks THEN Mark(i)
        ELSE IF i <= others THEN FillOther ELSE FillMatch]

LongCatalogs ==
    { LongCatalog(len, others, marks) :
        len \in (QuickLimit - 1)..(QuickLimit + LongExtra),
        others \in {0, 1},
        marks \in SUBSET {2, QuickLimit, QuickLimit + 1, QuickLimit + 2} }

InitQuick == \E cat \in LongCatalogs : InitWith(cat)

SpecQuick == InitQuick /\ [][Next]_vars

(***************************************************************************)
(* Catalogs of many valid groups, for the export: group i is named g<i>    *)
(* and holds ((i * stride) % 13) + 1 articles.                             *)
(***************************************************************************)
ManyGroup(i, stride, raw) ==
    LET name == <<"g">> \o IntToText(i)
        last == IntToText(((i * stride) % 13) + 1)
    IN  IF raw THEN Bytes(name \o <<" ">> \o last \o <<" ","1"," ","y">>)
        ELSE Rec(name, last, <<"1">>, <<"y">>)

ManyCatalogs ==
    { [i \in 1..n |-> ManyGroup(i, stride, raw)] :
        n \in 0..MaxGroups, stride \in {1, 5}, raw \in BOOLEAN }

InitExport == \E cat \in ManyCatalogs : InitWith(cat)

SpecExport == InitExport /\ [][Next]_vars

(***************************************************************************)
(* Vocabulary of the properties, defined on the descriptors themselves.    *)
(***************************************************************************)
\* analyze_server has returned to main
Returned == pc \in {"returned", "printed", "exported", "exited"}

\* get_active_groups has returned
Listed == pc \in {"scan", "finally", "returned", "printed", "exported", "exited"}
          /\ connect_result = "ok"

\* the scan loop has run over a non-empty groups_data
Scanned == Listed /\ pc # "scan" /\ groups_data # <<>>

\* a descriptor that carries its fields: a structured record, or a line that
\* decodes and has at least 4 tokens
WellFormed(g) ==
    \/ g.shape = "record"
    \/ g.shape \in {"bytes", "str"} /\ LineOf(g).ok /\ Len(Split(LineOf(g).text)) >= 4

\* the tokens of a line, none when it does not decode
TokensOf(g) == IF LineOf(g).ok THEN Split(LineOf(g).text) ELSE <<>>

\* the group name of a descriptor: the record's field, the line's first token
DescriptorName(g) ==
    IF g.shape = "record" THEN g.group
    ELSE IF Len(TokensOf(g)) >= 1 THEN TokensOf(g)[1] ELSE <<>>

\* the bounds of a descriptor, where it has them: the record's last and
\* first, the line's second and third token
BoundsOf(g) ==
    LET toks == IF g.shape = "record" THEN <<>> ELSE TokensOf(g)
        hi == IF g.shape = "record" THEN g.last
              ELSE IF Len(toks) >= 2 THEN toks[2] ELSE <<>>
        lo == IF g.shape = "record" THEN g.first
              ELSE IF Len(toks) >= 3 THEN toks[3] ELSE <<>>
        high == ParseInt(hi)
        low == ParseInt(lo)
    IN  [ok |-> high.ok /\ low.ok, high |-> high.val, low |-> low.val]

\* bounds that parse, with high >= low and high > 0
ValidBounds(g) ==
    LET b == BoundsOf(g) IN b.ok /\ b.high >= b.low /\ b.high > 0

\* the name contains a case-insensitive match of the pattern
NameMatches(g) == Search(pattern, DescriptorName(g))

(***************************************************************************)
(* C1.  Whenever analyze_server has returned and a session had been        *)
(* opened (self.connection was set), quit() has been called on it.         *)
(* Violated: when login() raises inside connect, analyze_server returns    *)
(* before its try block and the open session is never closed.              *)
(***************************************************************************)
C1_SessionClosedOnReturn ==
    (Returned /\ connection = "NNTP") => quit_calls >= 1

(***************************************************************************)
(* C2, as claimed.  The process exits non-zero exactly when the catalog    *)
(* is empty or its retrieval fails (the connection, the list command, or   *)
(* get_active_groups returning nothing), and with zero in every other      *)
(* run.  Violated: a retrieved, non-empty groups_data none of whose        *)
(* descriptors is valid exits 1.                                           *)
(***************************************************************************)
C2_ExitNonZeroIffEmptyOrFailed ==
    pc = "exited" =>
        (exit_code # 0 <=>
            \/ connect_result # "ok"
            \/ list_result = "error"
            \/ catalog = <<>>
            \/ groups_data = <<>>)

(***************************************************************************)
(* C2, amended.  The process exits with status 1 exactly when no valid     *)
(* group came out of the run: the connection failed, get_active_groups     *)
(* returned nothing, or none of the descriptors it returned has valid      *)
(* bounds; otherwise it exits with status 0.                               *)
(***************************************************************************)
C2_ExitNonZeroIffNoValidGroup ==
    pc = "exited" =>
        /\ exit_code \in {0, 1}
        /\ exit_code = 1 <=>
            \/ connect_result # "ok"
            \/ groups_data = <<>>
            \/ \A i \in 1..Len(groups_data) :
                   ~(WellFormed(groups_data[i]) /\ ValidBounds(groups_data[i]))

\* a run over a listed, non-empty catalog without any valid group exits 1
C2_Witness ==
    /\ pc = "exited"
    /\ exit_code = 1
    /\ connect_result = "ok"
    /\ list_result = "ok"
    /\ pattern = <<>>
    /\ Len(catalog) >= 2
    /\ groups_data = catalog

(***************************************************************************)
(* C3.  print_top_groups emits at most min(top_n, len(groups)) detail      *)
(* rows, and the count of its title line equals the number of rows.        *)
(* Violated for a negative top_n: groups[:top_n] keeps len(groups)+top_n   *)
(* rows while the title shows min(top_n, len(groups)) = top_n.             *)
(***************************************************************************)
C3_RowsClampedAndCounted ==
    report.printed =>
        /\ Len(report.rows) <= Min(top_n, Len(groups))
        /\ report.header = Len(report.rows)

(***************************************************************************)
(* C4.  With a pattern, and when the filter does not raise,                *)
(* get_active_groups retains exactly the descriptors whose name matches,   *)
(* in source order, whatever their representation.                         *)
(* Violated: a raw line is searched as a whole, so "c 5 1 y" is retained   *)
(* for the pattern "5".                                                    *)
(***************************************************************************)
C4_RetainsExactlyNameMatches ==
    (/\ Listed
     /\ list_result = "ok"
     /\ pattern # <<>>
     /\ ~quick_scan
     /\ FilterByPattern(catalog, pattern).ok)
    => groups_data = SelectSeq(catalog, NameMatches)

(***************************************************************************)
(* C5, as claimed.  analyze_group_activity returns a GroupInfo exactly for *)
(* the descriptors whose bounds parse with high >= low and high > 0, and   *)
(* every record has count = high - low + 1 > 0.  Stated of the scan just   *)
(* done (pc = "finally"): infos holds the result for each descriptor of    *)
(* groups_data, and neither changes afterwards.                            *)
(* Violated: the line "ab 5 1" has such bounds and yields None, for it has *)
(* fewer than 4 tokens.                                                    *)
(***************************************************************************)
C5_GroupInfoIffValidBounds ==
    pc = "finally" =>
        \A i \in 1..Len(infos) :
            /\ infos[i] # None <=> ValidBounds(groups_data[i])
            /\ infos[i] # None =>
                  /\ infos[i].count = infos[i].high - infos[i].low + 1
                  /\ infos[i].count > 0

(***************************************************************************)
(* C5, amended.  analyze_group_activity returns a GroupInfo exactly for    *)
(* the descriptors that are a structured record or a decodable line of at  *)
(* least 4 tokens and whose bounds parse with high >= low and high > 0;    *)
(* every record carries those bounds, count = high - low + 1 and           *)
(* count > 0; every other descriptor, those with high < low or high <= 0   *)
(* among them, yields None.                                                *)
(***************************************************************************)
C5_GroupInfoIffWellFormedValidBounds ==
    pc = "finally" =>
        /\ Len(infos) = IF Scanned THEN Len(groups_data) ELSE 0
        /\ \A i \in 1..Len(infos) :
            LET g == groups_data[i]
                b == BoundsOf(g)
            IN  /\ infos[i] # None <=> (WellFormed(g) /\ ValidBounds(g))
                /\ infos[i] # None =>
                      /\ infos[i].high = b.high
                      /\ infos[i].low = b.low
                      /\ infos[i].count = infos[i].high - infos[i].low + 1
                      /\ infos[i].count > 0
                /\ (b.ok /\ (b.high < b.low \/ b.high <= 0)) => infos[i] = None

\* a scan that produced a record, dropped a group whose high watermark is 0
\* although high >= low, and dropped a 3-token line with valid bounds
C5_Witness ==
    /\ pc = "finally"
    /\ \E i, j, k \in 1..Len(infos) :
        /\ infos[i] # None
        /\ infos[j] = None /\ BoundsOf(groups_data[j]).ok
           /\ BoundsOf(groups_data[j]).high = 0
           /\ BoundsOf(groups_data[j]).low = 0
        /\ infos[k] = None /\ ValidBounds(groups_data[k])
           /\ ~WellFormed(groups_data[k])

(***************************************************************************)
(* C6.  The sequence analyze_server returns (groups, at pc = "returned")   *)
(* is a permutation of the valid records of the scan, in non-increasing    *)
(* order of activity_score, and                                            *)
(* records of equal score keep the order of their descriptors: for every   *)
(* score, the records of that score are the same sequence in the result    *)
(* as in the scan.                                                         *)
(***************************************************************************)
C6_RankedStablePermutation ==
    LET valid == SelectSeq(infos, LAMBDA r : r # None)
        scores == {valid[i].activity_score : i \in 1..Len(valid)}
                  \cup {groups[i].activity_score : i \in 1..Len(groups)}
    IN  pc = "returned" =>
            /\ Len(groups) = Len(valid)
            /\ \A i \in 1..(Len(groups) - 1) :
                   groups[i].activity_score >= groups[i + 1].activity_score
            /\ \A s \in scores :
                   SelectSeq(groups, LAMBDA r : r.activity_score = s)
                   = SelectSeq(valid, LAMBDA r : r.activity_score = s)

\* a returned ranking of three records, two of them different records of
\* equal score, scanned after a record of lower or higher score
C6_Witness ==
    /\ pc = "returned"
    /\ Len(groups) = 3
    /\ \E i, j \in 1..3 :
        /\ i < j
        /\ groups[i].activity_score = groups[j].activity_score
        /\ groups[i] # groups[j]
    /\ groups[1].activity_score > groups[3].activity_score
    /\ groups # SelectSeq(infos, LAMBDA r : r # None)

(***************************************************************************)
(* C7.  In a listed catalog that holds a malformed descriptor (one that    *)
(* does not carry its fields, whose bounds do not parse, or that is of     *)
(* another representation than the first), every other descriptor that is  *)
(* well formed, passes the name filter and the limit and has valid bounds  *)
(* is in the result of analyze_server.                                     *)
(* Violated: with a pattern, an undecodable line (or a line in a catalog   *)
(* of records) makes the filter raise and the whole run returns [].        *)
(***************************************************************************)
Malformed(g) ==
    \/ ~WellFormed(g)
    \/ ~BoundsOf(g).ok
    \/ HasGroupAttr(g) # HasGroupAttr(catalog[1])

\* descriptor i passes the filter and is among the first QuickLimit that do
PassesFilterAndLimit(i) ==
    /\ pattern # <<>> => NameMatches(catalog[i])
    /\ quick_scan =>
          Cardinality({j \in 1..i : pattern # <<>> => NameMatches(catalog[j])})
          <= QuickLimit

C7_MalformedNeverStopsOthers ==
    (/\ Returned
     /\ connect_result = "ok"
     /\ list_result = "ok"
     /\ \E j \in 1..Len(catalog) : Malformed(catalog[j]))
    => \A i \in 1..Len(catalog) :
          (/\ ~Malformed(catalog[i])
           /\ ValidBounds(catalog[i])
           /\ PassesFilterAndLimit(i))
          => \E k \in 1..Len(groups) :
                /\ groups[k].name = DescriptorName(catalog[i])
                /\ groups[k].high = BoundsOf(catalog[i]).high
                /\ groups[k].low = BoundsOf(catalog[i]).low

(***************************************************************************)
(* C8.  export_results writes the comma-joined list of the exported names  *)
(* once and no block when there are at most 25 names; with more than 25    *)
(* it writes the full list once, then ceil(n / 15) blocks numbered from 1, *)
(* each of 15 names except possibly the last, whose names in order are     *)
(* the full list (30 names: 2 blocks of 15).                               *)
(***************************************************************************)
\* the names of a comma-joined text: the stretches between its commas
NamesIn(text) ==
    LET commas == {i \in 1..Len(text) : text[i] = ","}
        cut == [k \in 0..(Cardinality(commas) + 1) |->
                   IF k = 0 THEN 0
                   ELSE IF k = Cardinality(commas) + 1 THEN Len(text) + 1
                   ELSE CHOOSE p \in commas :
                            Cardinality({q \in commas : q <= p}) = k]
    IN  IF text = <<>> THEN <<>>
        ELSE [k \in 1..(Cardinality(commas) + 1) |->
                 SubSeq(text, cut[k - 1] + 1, cut[k] - 1)]

\* the names of lines from..Len(lines), one after the other
RECURSIVE NamesOfLines(_, _)
NamesOfLines(lines, from) ==
    IF from > Len(lines) THEN <<>>
    ELSE NamesIn(lines[from].text) \o NamesOfLines(lines, from + 1)

\* the names export_results is to list: those of groups[:top_n]
ExportedNames ==
    [i \in 1..Len(SliceTo(groups, top_n)) |-> SliceTo(groups, top_n)[i].name]

C8_NameListAndBlocks ==
    file.written =>
        LET names == ExportedNames
            n == Len(names)
            lines == file.names
        IN  IF n <= 25
            THEN /\ Len(lines) = 1
                 /\ lines[1].label = "list"
                 /\ NamesIn(lines[1].text) = names
            ELSE /\ Len(lines) = 1 + ((n + 14) \div 15)
                 /\ lines[1].label = "full"
                 /\ NamesIn(lines[1].text) = names
                 /\ \A b \in 2..Len(lines) :
                       /\ lines[b].label = "block"
                       /\ lines[b].number = b - 1
                       /\ Len(NamesIn(lines[b].text)) <= 15
                       /\ b < Len(lines) => Len(NamesIn(lines[b].text)) = 15
                       /\ Len(NamesIn(lines[b].text)) >= 1
                 /\ NamesOfLines(lines, 2) = names
                 /\ n = 30 => /\ Len(lines) = 3
                              /\ Len(NamesIn(lines[3].text)) = 15

\* an export of 31 names: the full list, two blocks of 15 and one of 1
C8_Witness ==
    /\ file.written
    /\ Len(ExportedNames) = 31
    /\ Len(file.names) = 4
    /\ top_n = 50

(***************************************************************************)
(* C9.  In a quick scan the filter runs before the cap and the cap before  *)
(* the scan: groups_data is the first 1000 descriptors, in source order,   *)
(* of those of the catalog whose name matches (all of them when fewer      *)
(* match); the scan derives exactly those, and every record of the result  *)
(* comes from one of them, so a rejected descriptor is not replaced by a   *)
(* later catalog entry.                                                    *)
(***************************************************************************)
C9_QuickScanFirstThousandOfFiltered ==
    (Listed /\ list_result = "ok" /\ quick_scan) =>
        LET matching == SelectSeq(catalog,
                            LAMBDA g : pattern # <<>> => NameMatches(g))
        IN  /\ groups_data = SubSeq(matching, 1, Min(QuickLimit, Len(matching)))
            /\ Scanned =>
                  /\ Len(infos) = Len(groups_data)
                  /\ Len(groups) + failed_count = Len(groups_data)
                  /\ \A k \in 1..Len(groups) :
                        \E i \in 1..Len(groups_data) :
                            groups[k].name = DescriptorName(groups_data[i])

\* a quick scan with a pattern over a catalog whose first entry does not
\* match, with more than 1000 matching entries: 1000 are scanned, most of
\* them rejected, the valid group at catalog position 1001 is among them
\* and the matching valid group after it is not
C9_Witness ==
    /\ pc = "returned"
    /\ quick_scan
    /\ pattern # <<>>
    /\ ~NameMatches(catalog[1])
    /\ Len(groups_data) = QuickLimit
    /\ failed_count > 0
    /\ groups_data[QuickLimit] = catalog[QuickLimit + 1]
    /\ \E k \in 1..Len(groups) : groups[k].name = DescriptorName(catalog[QuickLimit + 1])
    /\ \E i \in (QuickLimit + 2)..Len(catalog) :
          /\ NameMatches(catalog[i]) /\ ValidBounds(catalog[i])
          /\ \A k \in 1..Len(groups) : groups[k].name # DescriptorName(catalog[i])

(***************************************************************************)
(* C10.  Every record of the result has posts_per_day = min(count, 10)     *)
(* and activity_score = count for count < 10, 0.7 * count + 3 for          *)
(* count >= 10 (posts_per_day in tenths, activity_score in hundredths);    *)
(* of two records the one of larger count has the larger score, and the    *)
(* result is in non-increasing order of count.                             *)
(***************************************************************************)
C10_ScoreIncreasingInCount ==
    (Listed /\ pc # "scan") =>
        /\ \A k \in 1..Len(groups) :
              /\ groups[k].posts_per_day = 10 * Min(groups[k].count, 10)
              /\ groups[k].activity_score =
                    IF groups[k].count < 10 THEN 100 * groups[k].count
                    ELSE 70 * groups[k].count + 300
        /\ \A a, b \in 1..Len(groups) :
              groups[a].count > groups[b].count
              => groups[a].activity_score > groups[b].activity_score
        /\ \A k \in 1..(Len(groups) - 1) : groups[k].count >= groups[k + 1].count

\* a result that holds records of 9, 10 and 11 articles
C10_Witness ==
    /\ pc = "returned"
    /\ \E a, b, c \in 1..Len(groups) :
          groups[a].count = 9 /\ groups[b].count = 10 /\ groups[c].count = 11

====
